---- MODULE Spec2Model ----
(***************************************************************************)
(* Model of the notes CRUD service of src/app.py.                          *)
(*                                                                         *)
(* The table "notes" lives in the datastore; every request handler runs in *)
(* a thread of the WSGI server, opens its own SQLAlchemy session, and      *)
(* talks to the datastore in separate statements.  A handler is cut into   *)
(* steps at the points where it touches shared state (a query, the clock,  *)
(* a commit, a refresh); everything local between two such points belongs  *)
(* to the step that precedes it.  Steps of different threads interleave.   *)
(*                                                                         *)
(* Text is a sequence of one-character strings, so that str.strip() is     *)
(* computed, not assumed.  Timestamps are naturals read from a             *)
(* non-decreasing clock.                                                   *)
(***************************************************************************)
EXTENDS Integers, Sequences, FiniteSets, TLC

\* Bounds of the model.
MaxRequests == 3    \* requests the front door hands over in a run
MaxNotes == 2       \* rows ever inserted (ids 1..MaxNotes)
MaxClock == 2       \* the clock runs from 0 to MaxClock

Threads == {1, 2}   \* request threads of the front door
Ids == 1 .. MaxNotes
Sessions == 1 .. Cardinality(Threads) + 1

VARIABLES
    notes,       \* the table: id -> row, for the ids that have a row
    nextId,      \* the table's autoincrement sequence
    clock,       \* what datetime.utcnow() returns
    req,         \* per thread: the request it is handling and where it stands
    open,        \* the sessions that are open (acquired and not yet closed)
    served,      \* the number of requests handed to a thread so far
    createdWith  \* history: id -> payload of the Create that inserted it, for the
                 \* ids no Update or Delete has committed on since

vars == <<notes, nextId, clock, req, open, served, createdWith>>

----------------------------------------------------------------------------
\* JSON values of a request body, and Python's None.

Absent == [kind |-> "absent", s |-> <<>>]     \* the key is not in the body
Null == [kind |-> "null", s |-> <<>>]         \* the key is there with JSON null
Str(s) == [kind |-> "str", s |-> s]
None == [kind |-> "none", s |-> <<>>]

Body(title, content) == [title |-> title, content |-> content]

\* The request bodies the model sends to Create.
CreatePayloads ==
    {Body(Absent, Absent),                        \* {}
     Body(Null, Null),                            \* {"title": null, "content": null}
     Body(Str(<<>>), Absent),                     \* {"title": ""}
     Body(Str(<<" ">>), Str(<<"c">>)),            \* {"title": " ", "content": "c"}
     Body(Str(<<" ", "a">>), Absent),             \* {"title": " a"}
     Body(Str(<<"a", " ">>), Str(<<"c", " ">>))}  \* {"title": "a ", "content": "c "}

\* The request bodies the model sends to Update.
UpdatePayloads ==
    {Body(Absent, Absent),                        \* {}
     Body(Str(<<" ">>), Absent),                  \* {"title": " "}
     Body(Null, Str(<<>>)),                       \* {"title": null, "content": ""}
     Body(Str(<<"a", " ">>), Str(<<"c", " ">>))}  \* {"title": "a ", "content": "c "}

\* payload.get(key): None when the key is missing or null.
PayloadGet(payload, key) ==
    IF payload[key].kind = "str" THEN payload[key] ELSE None

IsNone(v) == v.kind # "str"

RECURSIVE LStrip(_)
LStrip(s) == IF s # <<>> /\ Head(s) = " " THEN LStrip(Tail(s)) ELSE s

RECURSIVE RStrip(_)
RStrip(s) ==
    IF s # <<>> /\ s[Len(s)] = " " THEN RStrip(SubSeq(s, 1, Len(s) - 1)) ELSE s

\* str.strip()
Strip(s) == RStrip(LStrip(s))

\* (v or ""): None and the empty string are falsy.
OrEmpty(v) == IF IsNone(v) \/ v.s = <<>> THEN <<>> ELSE v.s

----------------------------------------------------------------------------
\* The entity.

NoNote == [id |-> 0, title |-> <<>>, content |-> <<>>, created_at |-> 0, updated_at |-> 0]

\* datetime.isoformat(): an injective rendering of the timestamp.
IsoFormat(t) == <<"T", t>>

\* (self.content or "") on a text: the empty text is falsy and "" replaces it.
OrEmptyText(s) == IF s = <<>> THEN <<>> ELSE s

\* Note.to_dict
ToDict(note) ==
    [id |-> note.id,
     title |-> note.title,
     content |-> OrEmptyText(note.content),
     created_at |-> IsoFormat(note.created_at),
     updated_at |-> IsoFormat(note.updated_at)]

\* The row of a Note object, and the Note object of a row.
RowOf(note) ==
    [title |-> note.title, content |-> note.content,
     created_at |-> note.created_at, updated_at |-> note.updated_at]

Load(id, row) ==
    [id |-> id, title |-> row.title, content |-> row.content,
     created_at |-> row.created_at, updated_at |-> row.updated_at]

\* session.get(Note, note_id): the object, or None (NoNote) when there is no row.
SessionGet(table, id) == IF id \in DOMAIN table THEN Load(id, table[id]) ELSE NoNote

----------------------------------------------------------------------------
\* Responses.

\* Mutant of NotFound: a missing row answered with a default Note.
NotFoundAsEmptyNote == [status |-> 200, body |-> ToDict(NoNote)]

NoResp == [status |-> 0, body |-> <<>>]
Ok(body) == [status |-> 200, body |-> body]
Created(body) == [status |-> 201, body |-> body]
TitleRequired == [status |-> 400, body |-> [error |-> "title is required"]]
NotFound == [status |-> 404, body |-> [error |-> "not found"]]
Deleted == [status |-> 200, body |-> [ok |-> TRUE]]
\* An exception that leaves the handler: the front door answers 500.
ServerError == [status |-> 500, body |-> [error |-> "internal server error"]]

NoPayload == [title |-> Absent, content |-> Absent]

Idle ==
    [op |-> "none", id |-> 0, payload |-> NoPayload, pc |-> "idle",
     session |-> 0, loaded |-> NoNote, note |-> NoNote, resp |-> NoResp]

----------------------------------------------------------------------------
Init ==
    /\ notes = [i \in {} |-> RowOf(NoNote)]
    /\ nextId = 1
    /\ clock = 0
    /\ req = [t \in Threads |-> Idle]
    /\ open = {}
    /\ served = 0
    /\ createdWith = [i \in {} |-> NoPayload]

\* The thread has no request in hand.
Free(t) == req[t].pc = "idle"

\* The finally clause and the return touch nothing that is shared: a handler
\* whose return value is fixed returns before any other step is taken.
Quiet == \A u \in Threads : req[u].pc # "return"

\* The front door hands a request to the first free thread.
Dispatch(t) ==
    /\ served < MaxRequests
    /\ Quiet
    /\ Free(t)
    /\ \A u \in Threads : u < t => ~Free(u)

\* SessionLocal(): a new session, distinct from every session that is open.
SessionLocal == CHOOSE s \in Sessions : s \notin open

\* The handler's frame once its session is made.
Begin(op, id, payload) ==
    [Idle EXCEPT !.op = op, !.id = id, !.payload = payload, !.session = SessionLocal]

\* The return value is fixed; what is left is the finally clause and the return.
Returning(r, resp) == [r EXCEPT !.pc = "return", !.resp = resp]

\* datetime.utcnow(): the clock is seen only when it is read, and time has
\* passed since the last reading; a reading is never earlier than the last.
UtcNow == clock .. MaxClock

\* An object of which the session holds the identity only: its attributes are
\* expired (after a commit) or are not read again (after session.delete).
Expired(id) == [NoNote EXCEPT !.id = id]

----------------------------------------------------------------------------
\* list_notes

\* Mutant of OrderedByCreatedAtDesc: the query orders oldest first.
OrderedByCreatedAtAsc(table, s) ==
    \A i, j \in 1 .. Len(s) :
        i < j => table[s[i]].created_at <= table[s[j]].created_at

\* order_by(Note.created_at.desc()): s lists ids newest first.
OrderedByCreatedAtDesc(table, s) ==
    \A i, j \in 1 .. Len(s) :
        i < j => table[s[i]].created_at >= table[s[j]].created_at

\* The orders the query may return the rows in (rows of equal created_at in any order).
QueryAll(table) ==
    LET n == Cardinality(DOMAIN table)
    IN  {s \in [1 .. n -> DOMAIN table] :
            /\ \A i, j \in 1 .. n : i # j => s[i] # s[j]
            /\ OrderedByCreatedAtDesc(table, s)}

ListNotes(t) ==
    /\ Dispatch(t)
    /\ \E s \in QueryAll(notes) :
          req' = [req EXCEPT ![t] =
                    Returning(Begin("list", 0, NoPayload),
                              Ok([i \in 1 .. Len(s) |-> ToDict(Load(s[i], notes[s[i]]))]))]
    /\ open' = open \cup {SessionLocal}
    /\ UNCHANGED <<notes, nextId, clock, createdWith>>
    /\ served' = served + 1

----------------------------------------------------------------------------
\* create_note

\* Mutant of CreateTitle: the title is validated and stored untrimmed.
CreateTitleUnstripped(payload) == OrEmpty(PayloadGet(payload, "title"))

\* Mutant of CreateContent: the content is stored untrimmed.
CreateContentUnstripped(payload) == OrEmpty(PayloadGet(payload, "content"))

CreateTitle(payload) == Strip(OrEmpty(PayloadGet(payload, "title")))
CreateContent(payload) == Strip(OrEmpty(PayloadGet(payload, "content")))

\* Note(title=title, content=content, created_at=now, updated_at=now); no id yet.
NewNote(title, content, now) ==
    [id |-> 0, title |-> title, content |-> content,
     created_at |-> now, updated_at |-> now]

\* Creates that hold a Note not yet inserted.
PendingCreates ==
    Cardinality({t \in Threads : req[t].op = "create" /\ req[t].pc = "commit"})

\* Lines 91-100: validation, then the session, the clock and session.add.
CreateNote(t, payload) ==
    /\ Dispatch(t)
    /\ IF CreateTitle(payload) = <<>>
       THEN /\ req' = [req EXCEPT ![t] =
                         Returning([Idle EXCEPT !.op = "create", !.payload = payload],
                                   TitleRequired)]
            /\ open' = open
            /\ clock' = clock
       ELSE /\ nextId + PendingCreates <= MaxNotes
            /\ \E now \in UtcNow :
                  /\ clock' = now
                  /\ req' = [req EXCEPT ![t] =
                               [Begin("create", 0, payload) EXCEPT
                                  !.pc = "commit",
                                  !.note = NewNote(CreateTitle(payload),
                                                   CreateContent(payload), now)]]
            /\ open' = open \cup {SessionLocal}
    /\ UNCHANGED <<notes, nextId, createdWith>>
    /\ served' = served + 1

----------------------------------------------------------------------------
\* get_note

GetNote(t, id) ==
    /\ Dispatch(t)
    /\ LET note == SessionGet(notes, id)
       IN  req' = [req EXCEPT ![t] =
                     Returning([Begin("get", id, NoPayload) EXCEPT !.note = note],
                               IF note = NoNote THEN NotFound ELSE Ok(ToDict(note)))]
    /\ open' = open \cup {SessionLocal}
    /\ UNCHANGED <<notes, nextId, clock, createdWith>>
    /\ served' = served + 1

----------------------------------------------------------------------------
\* update_note

\* Lines 122-127: the session and session.get.
UpdateNote(t, id, payload) ==
    /\ Dispatch(t)
    /\ LET note == SessionGet(notes, id)
       IN  req' = [req EXCEPT ![t] =
                     IF note = NoNote
                     THEN Returning(Begin("update", id, payload), NotFound)
                     ELSE [Begin("update", id, payload) EXCEPT
                             !.pc = "assign", !.loaded = note, !.note = note]]
    /\ open' = open \cup {SessionLocal}
    /\ UNCHANGED <<notes, nextId, clock, createdWith>>
    /\ served' = served + 1

\* Mutant of AssignFields: updated_at is not reset.
AssignFieldsKeepTimestamp(note, payload, now) ==
    LET title == PayloadGet(payload, "title")
        content == PayloadGet(payload, "content")
    IN  [note EXCEPT
           !.title = IF ~IsNone(title) THEN Strip(title.s) ELSE @,
           !.content = IF ~IsNone(content) THEN Strip(content.s) ELSE @]

\* Mutant of AssignFields: the clock is written to created_at.
AssignFieldsStampCreated(note, payload, now) ==
    LET title == PayloadGet(payload, "title")
        content == PayloadGet(payload, "content")
    IN  [note EXCEPT
           !.title = IF ~IsNone(title) THEN Strip(title.s) ELSE @,
           !.content = IF ~IsNone(content) THEN Strip(content.s) ELSE @,
           !.created_at = now]

\* Lines 128-134 on the loaded object.
AssignFields(note, payload, now) ==
    LET title == PayloadGet(payload, "title")
        content == PayloadGet(payload, "content")
    IN  [note EXCEPT
           !.title = IF ~IsNone(title) THEN Strip(title.s) ELSE @,
           !.content = IF ~IsNone(content) THEN Strip(content.s) ELSE @,
           !.updated_at = now]

Assign(t) ==
    /\ Quiet
    /\ req[t].pc = "assign"
    /\ \E now \in UtcNow :
          /\ clock' = now
          /\ req' = [req EXCEPT ![t] =
                       [@ EXCEPT !.pc = "commit",
                                 !.note = AssignFields(req[t].note, req[t].payload, now)]]
    /\ UNCHANGED <<notes, nextId, open, createdWith, served>>

----------------------------------------------------------------------------
\* delete_note

\* Lines 144-149: the session, session.get and session.delete.
DeleteNote(t, id) ==
    /\ Dispatch(t)
    /\ LET note == SessionGet(notes, id)
       IN  req' = [req EXCEPT ![t] =
                     IF note = NoNote
                     THEN Returning(Begin("delete", id, NoPayload), NotFound)
                     ELSE [Begin("delete", id, NoPayload) EXCEPT
                             !.pc = "commit", !.note = Expired(id)]]
    /\ open' = open \cup {SessionLocal}
    /\ UNCHANGED <<notes, nextId, clock, createdWith>>
    /\ served' = served + 1

----------------------------------------------------------------------------
\* session.commit(): the flush and the COMMIT, one transaction.

Columns == {"title", "content", "created_at", "updated_at"}

\* The unit of work puts in the UPDATE the attributes whose value differs from
\* the value the session loaded.
Changed(loaded, note) == {c \in Columns : note[c] # loaded[c]}

\* UPDATE notes SET <changed columns> WHERE id = note.id
UpdateRow(row, loaded, note) ==
    [c \in Columns |-> IF c \in Changed(loaded, note) THEN note[c] ELSE row[c]]

Without(f, id) == [i \in DOMAIN f \ {id} |-> f[i]]

\* INSERT: the sequence gives the id.
CommitCreate(t) ==
    /\ Quiet
    /\ req[t].pc = "commit" /\ req[t].op = "create"
    /\ notes' = (nextId :> RowOf(req[t].note)) @@ notes
    /\ nextId' = nextId + 1
    /\ createdWith' = (nextId :> req[t].payload) @@ createdWith
    /\ req' = [req EXCEPT ![t] = [@ EXCEPT !.pc = "refresh", !.id = nextId,
                                          !.payload = NoPayload,
                                          !.note = Expired(nextId)]]
    /\ UNCHANGED <<clock, open, served>>

\* An UPDATE that matches no row raises StaleDataError; no UPDATE is sent when
\* nothing changed.
CommitUpdate(t) ==
    /\ Quiet
    /\ req[t].pc = "commit" /\ req[t].op = "update"
    /\ LET id == req[t].id
           sent == Changed(req[t].loaded, req[t].note) # {}
       IN  IF sent /\ id \notin DOMAIN notes
           THEN /\ req' = [req EXCEPT ![t] = Returning(@, ServerError)]
                /\ UNCHANGED <<notes, createdWith>>
           ELSE /\ notes' = IF sent
                            THEN [notes EXCEPT ![id] =
                                    UpdateRow(@, req[t].loaded, req[t].note)]
                            ELSE notes
                /\ createdWith' = Without(createdWith, id)
                /\ req' = [req EXCEPT ![t] =
                             [@ EXCEPT !.pc = "refresh", !.loaded = NoNote,
                                       !.note = Expired(id)]]
    /\ UNCHANGED <<nextId, clock, open, served>>

\* A DELETE that matches no row only warns.
CommitDelete(t) ==
    /\ Quiet
    /\ req[t].pc = "commit" /\ req[t].op = "delete"
    /\ notes' = Without(notes, req[t].id)
    /\ createdWith' = Without(createdWith, req[t].id)
    /\ req' = [req EXCEPT ![t] =
                 Returning([@ EXCEPT !.note = NoNote], Deleted)]
    /\ UNCHANGED <<nextId, clock, open, served>>

\* session.refresh(note): InvalidRequestError when the row is gone.
Refresh(t) ==
    /\ Quiet
    /\ req[t].pc = "refresh"
    /\ LET note == SessionGet(notes, req[t].id)
       IN  req' = [req EXCEPT ![t] =
                     IF note = NoNote
                     THEN Returning(@, ServerError)
                     ELSE Returning([@ EXCEPT !.note = note],
                                    IF req[t].op = "create"
                                    THEN Created(ToDict(note))
                                    ELSE Ok(ToDict(note)))]
    /\ UNCHANGED <<notes, nextId, clock, open, createdWith, served>>

----------------------------------------------------------------------------
\* The datastore fails (OperationalError) in a statement.

\* In the first query of a handler.
QueryError(t, op, id) ==
    /\ Dispatch(t)
    /\ req' = [req EXCEPT ![t] = Returning(Begin(op, id, NoPayload), ServerError)]
    /\ open' = open \cup {SessionLocal}
    /\ UNCHANGED <<notes, nextId, clock, createdWith>>
    /\ served' = served + 1

\* In the commit or the refresh: nothing is written.
DatastoreError(t) ==
    /\ Quiet
    /\ req[t].pc \in {"commit", "refresh"}
    /\ req' = [req EXCEPT ![t] = Returning(@, ServerError)]
    /\ UNCHANGED <<notes, nextId, clock, open, createdWith, served>>

----------------------------------------------------------------------------
\* Mutant of Finally: the session is left open.
FinallySkipped(sessions, s) == sessions

\* finally: session.close(), on every way out of the try block.
Finally(sessions, s) == sessions \ {s}

\* The handler returns; the thread is free for the next request.
Return(t) ==
    /\ req[t].pc = "return"
    /\ open' = IF req[t].session # 0 THEN Finally(open, req[t].session) ELSE open
    /\ req' = [req EXCEPT ![t] = Idle]
    /\ UNCHANGED <<notes, nextId, clock, createdWith, served>>

----------------------------------------------------------------------------
Next ==
    \/ \E t \in Threads : ListNotes(t)
    \/ \E t \in Threads, p \in CreatePayloads : CreateNote(t, p)
    \/ \E t \in Threads, id \in Ids : GetNote(t, id)
    \/ \E t \in Threads, id \in Ids, p \in UpdatePayloads : UpdateNote(t, id, p)
    \/ \E t \in Threads : Assign(t)
    \/ \E t \in Threads, id \in Ids : DeleteNote(t, id)
    \/ \E t \in Threads : CommitCreate(t)
    \/ \E t \in Threads : CommitUpdate(t)
    \/ \E t \in Threads : CommitDelete(t)
    \/ \E t \in Threads : Refresh(t)
    \/ \E t \in Threads : QueryError(t, "list", 0)
    \/ \E t \in Threads, op \in {"get", "update", "delete"}, id \in Ids :
          QueryError(t, op, id)
    \/ \E t \in Threads : DatastoreError(t)
    \/ \E t \in Threads : Return(t)

Spec == Init /\ [][Next]_vars

----------------------------------------------------------------------------
\* What the claims speak of.

\* In this step thread t takes a request and runs its handler up to the end of
\* its first statement on the datastore.
Arrives(t) == req[t].pc = "idle" /\ req'[t].pc # "idle"

\* In this step the commit of thread t's Update succeeds.
UpdateCommits(t) ==
    req[t].op = "update" /\ req[t].pc = "commit" /\ req'[t].pc = "refresh"

\* The request body gives the field a text.
Supplied(payload, key) == payload[key].kind = "str"

\* A text of nothing but blanks (the empty text too).
Blank(s) == \A i \in 1 .. Len(s) : s[i] = " "

\* The response is an error raised by the datastore.
Failed(resp) == resp.status = 500

----------------------------------------------------------------------------
\* C1: every stored note has a title that is not empty once trimmed; a Create or
\* an Update that would store an empty or blank title is rejected before it writes.
C1_TitleNeverBlank == \A id \in DOMAIN notes : ~Blank(notes[id].title)

\* C2: the commit of an Update leaves in the row, for each of title and content,
\* the trimmed text of the request when the request supplies one and the text of
\* before when it does not, and leaves created_at (and the row's id) as it was.
C2_UpdateWritesSuppliedFields ==
    [][\A t \in Threads :
          (UpdateCommits(t) /\ req[t].id \in DOMAIN notes) =>
             LET id == req[t].id
                 p == req[t].payload
             IN  /\ id \in DOMAIN notes'
                 /\ \A key \in {"title", "content"} :
                       notes'[id][key] = IF Supplied(p, key)
                                         THEN Strip(p[key].s)
                                         ELSE notes[id][key]
                 /\ notes'[id].created_at = notes[id].created_at]_vars

\* C3: a Get, Update or Delete whose id has no row answers 404 "not found" (unless
\* the datastore itself fails), never 200 nor a Note, and leaves the table as it
\* is; an id that has lost its row never has one again, so a Get or a second
\* Delete after a Delete is such a request.
C3_MissingIdIsNotFound ==
    [][/\ \A t \in Threads :
            (/\ Arrives(t)
             /\ req'[t].op \in {"get", "update", "delete"}
             /\ req'[t].id \notin DOMAIN notes
             /\ ~Failed(req'[t].resp)) =>
                /\ req'[t].pc = "return"
                /\ req'[t].resp.status = 404
                /\ req'[t].resp.body = [error |-> "not found"]
                /\ notes' = notes
       /\ \A id \in 1 .. nextId - 1 :
            id \notin DOMAIN notes => id \notin DOMAIN notes']_vars

\* The 404 of a Get for an id whose row a Delete removed.
C3_Witness ==
    \E t \in Threads :
        /\ req[t].op = "get" /\ req[t].pc = "return"
        /\ req[t].id < nextId
        /\ req[t].resp.status = 404

\* C4: a Create whose title is absent, null, empty or blank answers 400 "title is
\* required" at once, without a session, and the table is as before.
C4_CreateWithoutTitleRejected ==
    [][\A t \in Threads :
          (/\ Arrives(t)
           /\ req'[t].op = "create"
           /\ (Supplied(req'[t].payload, "title") => Blank(req'[t].payload.title.s))) =>
              /\ req'[t].pc = "return"
              /\ req'[t].resp.status = 400
              /\ req'[t].resp.body = [error |-> "title is required"]
              /\ req'[t].session = 0
              /\ open' = open
              /\ notes' = notes /\ nextId' = nextId]_vars

\* The 400 of a Create whose title is one blank, with rows in the table.
C4_Witness ==
    \E t \in Threads :
        /\ req[t].op = "create" /\ req[t].pc = "return"
        /\ req[t].payload.title = Str(<<" ">>)
        /\ req[t].resp.status = 400
        /\ DOMAIN notes # {}

\* C5: the Note a Create answers with carries the id the datastore gave the row;
\* a Get of an id on which no Update and no Delete has committed since its Create
\* answers the trimmed title and content of the Create's request, "" for a content
\* the request left out, and created_at equal to updated_at.
C5_CreateThenGet ==
    /\ \A t \in Threads :
          (req[t].op = "create" /\ req[t].pc = "return" /\ req[t].resp.status = 201) =>
             /\ req[t].resp.body.id = req[t].id
             /\ req[t].id \in 1 .. nextId - 1
    /\ \A t \in Threads :
          (/\ req[t].op = "get" /\ req[t].pc = "return"
           /\ req[t].resp.status = 200
           /\ req[t].id \in DOMAIN createdWith) =>
              LET p == createdWith[req[t].id]
                  body == req[t].resp.body
              IN  /\ body.id = req[t].id
                  /\ body.title = Strip(p.title.s)
                  /\ body.content = IF Supplied(p, "content")
                                    THEN Strip(p.content.s) ELSE <<>>
                  /\ body.created_at = body.updated_at

\* The Get of a note created from {"title": " a"}: content was left out.
C5_Witness ==
    \E t \in Threads :
        /\ req[t].op = "get" /\ req[t].pc = "return"
        /\ req[t].resp.status = 200
        /\ req[t].id \in DOMAIN createdWith
        /\ createdWith[req[t].id] = Body(Str(<<" ", "a">>), Absent)

\* C6 as claimed: no step lowers the updated_at of a row.
C6_UpdatedAtNeverDecreases ==
    [][\A id \in DOMAIN notes \cap DOMAIN notes' :
          notes'[id].updated_at >= notes[id].updated_at]_vars

\* C6 as amended: an Update gives its object the reading of the clock it takes
\* after loading the row, never less than the updated_at it loaded, whatever the
\* request supplies; and when the row is still as the Update loaded it, the commit
\* leaves that reading in the row, so updated_at does not decrease.
C6_UpdatedAtResetOnUpdate ==
    [][\A t \in Threads :
          /\ (req[t].pc = "assign" /\ req'[t].pc = "commit") =>
                /\ req'[t].note.updated_at = clock'
                /\ req'[t].note.updated_at >= req[t].loaded.updated_at
          /\ (/\ UpdateCommits(t)
              /\ req[t].id \in DOMAIN notes
              /\ Load(req[t].id, notes[req[t].id]) = req[t].loaded) =>
                /\ notes'[req[t].id].updated_at = req[t].note.updated_at
                /\ notes'[req[t].id].updated_at >= notes[req[t].id].updated_at]_vars

\* An Update that supplies nothing has committed and moved updated_at on.
C6_Witness ==
    \E t \in Threads :
        /\ req[t].op = "update" /\ req[t].pc = "refresh"
        /\ req[t].payload = NoPayload
        /\ req[t].id \in DOMAIN notes
        /\ notes[req[t].id].updated_at > notes[req[t].id].created_at

\* C7: List answers 200 (unless the datastore itself fails) with every row of the
\* table exactly once, as the row is stored, newest created_at first; with no rows
\* the answer is the empty sequence; the table is as before.
C7_ListNewestFirst ==
    [][\A t \in Threads :
          (Arrives(t) /\ req'[t].op = "list" /\ ~Failed(req'[t].resp)) =>
             LET body == req'[t].resp.body
             IN  /\ req'[t].resp.status = 200
                 /\ Len(body) = Cardinality(DOMAIN notes)
                 /\ \A id \in DOMAIN notes :
                       \E i \in 1 .. Len(body) : body[i] = ToDict(Load(id, notes[id]))
                 /\ \A i \in 1 .. Len(body) : \A j \in i + 1 .. Len(body) :
                       notes[body[i].id].created_at >= notes[body[j].id].created_at
                 /\ notes' = notes]_vars

\* A List of two notes created at different times.
C7_Witness ==
    \E t \in Threads :
        /\ req[t].op = "list" /\ req[t].pc = "return"
        /\ req[t].resp.status = 200
        /\ Len(req[t].resp.body) = 2
        /\ req[t].resp.body[1].created_at # req[t].resp.body[2].created_at

\* C8: every stored note has created_at <= updated_at.
C8_CreatedBeforeUpdated ==
    \A id \in DOMAIN notes : notes[id].created_at <= notes[id].updated_at

\* A row that an Update has written after two Updates of it ran side by side.
C8_Witness ==
    /\ \E id \in DOMAIN notes : notes[id].created_at < notes[id].updated_at
    /\ \A t \in Threads : req[t].op = "update" /\ req[t].pc \in {"refresh", "return"}

\* C9: the open sessions are exactly the sessions of the requests in hand, one
\* each: a thread that has returned holds none and has left none open, whatever
\* way its handler ended.
C9_SessionsScoped ==
    /\ open = {req[t].session : t \in {u \in Threads : req[u].session # 0}}
    /\ \A t \in Threads : req[t].pc = "idle" => req[t].session = 0
    /\ \A t \in Threads :
          (req[t].pc # "idle" /\ ~(req[t].op = "create" /\ req[t].resp.status = 400)) =>
             req[t].session \in open
    /\ \A t, u \in Threads :
          (t # u /\ req[t].session # 0) => req[t].session # req[u].session

\* A handler leaves on an error of the datastore, its session still open before
\* the finally clause, while the other thread is in its try block with another.
C9_Witness ==
    \E t, u \in Threads :
        /\ req[t].pc \in {"assign", "commit", "refresh"}
        /\ req[u].pc = "return" /\ req[u].resp.status = 500
        /\ {req[t].session, req[u].session} \subseteq open

\* C10: when the commit of an Update follows the commit of another Update of the
\* same id that is still in hand, every field both requests supply holds the
\* trimmed text of the one that commits now.
C10_LastWriterWins ==
    [][\A t, u \in Threads :
          (/\ t # u
           /\ UpdateCommits(t)
           /\ req[u].op = "update" /\ req[u].pc = "refresh"
           /\ req[u].id = req[t].id
           /\ req[t].id \in DOMAIN notes) =>
              \A key \in {"title", "content"} :
                 (Supplied(req[t].payload, key) /\ Supplied(req[u].payload, key)) =>
                    notes'[req[t].id][key] = Strip(req[t].payload[key].s)]_vars

====
